---- MODULE Spec2Model ----
(***************************************************************************)
(* Model of k8s.io/apiserver/pkg/server/httplog (httplog.go): the          *)
(* respLogger response-writer decorator, the request-context slot that     *)
(* carries it, and the WithLogging middleware that installs it, serves    *)
(* the inner handler and emits the log record when the handler unwinds.   *)
(***************************************************************************)
EXTENDS Integers, Sequences, FiniteSets, TLC

\* ------------------------------------------------------------------ bounds

\* Number of calls the inner handler makes before it returns or panics.
MaxOps == 3

\* Status codes given to DefaultStacktracePred range over
\* -MaxStatus..MaxStatus.
MaxStatus == 600

\* Longest exclude list given to StatusIsNot.
MaxListLen == 3

\* Handler operations explored in total when requests are served concurrently.
MaxConcOps == 2

\* ------------------------------------------------------- program constants

StatusSwitchingProtocols == 101
StatusOK == 200
StatusCreated == 201
StatusAccepted == 202
StatusForbidden == 403
StatusInternalServerError == 500

\* A nil *respLogger (respLoggerFromContext's "or nil").
Nil == 0

\* ------------------------------------------------------------ input domains

Reqs == {1, 2}

\* Status codes the handler passes to WriteHeader.
Statuses == {StatusOK, StatusForbidden, StatusInternalServerError}

\* Byte slices the handler passes to Write (nil and a non-empty body).
Bodies == {"", "body"}

\* (key, value) pairs the handler passes to AddKeyValue.
KVInputs == {<<"k1", "v1">>, <<"k1", "v2">>}

\* Annotation messages the handler passes to Addf and AddInfof.
Msgs == {"note"}

\* Values the inner handler panics with.
PanicValues == {"boom", "bang"}

\* Optional capabilities of an http.ResponseWriter.
Capabilities == {"flush", "closenotify", "hijack"}

\* The underlying writers of the tests: FakeResponseWriter,
\* FakeResponseWriterFlusherCloseNotifier,
\* FakeResponseWriterFlusherCloseNotifierHijacker.
WriterCaps == {{}, {"flush", "closenotify"}, {"flush", "closenotify", "hijack"}}

\* Number of WithLogging layers wrapped around the inner handler
\* (0: no middleware, 1: the normal installation, 2: nested WithLogging).
LayerChoices == {0, 1, 2}

\* ------------------------------------------------------ stack-trace predicates

\* DefaultStacktracePred without the exception for 101.
DefaultStacktracePredNoException(status) ==
    status < StatusOK \/ status >= StatusInternalServerError

\* DefaultStacktracePred: httplog.go 86-88.
DefaultStacktracePred(status) ==
    (status < StatusOK \/ status >= StatusInternalServerError)
        /\ status # StatusSwitchingProtocols

\* The map StatusIsNot builds from its variadic list (the range loop).
RECURSIVE statusesNoTrace(_)
statusesNoTrace(statuses) ==
    IF statuses = <<>> THEN {}
    ELSE statusesNoTrace(Tail(statuses)) \cup {Head(statuses)}

\* StatusIsNot taking one status instead of a variadic list: only the first
\* status is excluded.
StatusIsNotFirstOnly(statuses) ==
    [kind |-> "StatusIsNot",
     noTrace |-> IF statuses = <<>> THEN {} ELSE {Head(statuses)}]

\* StatusIsNot returns a closure over the map; a predicate value is the
\* closure's code ("kind") and its captured map.
StatusIsNot(statuses) ==
    [kind |-> "StatusIsNot", noTrace |-> statusesNoTrace(statuses)]

\* The function value DefaultStacktracePred.
DefaultPred == [kind |-> "Default", noTrace |-> {}]

\* Calling a StacktracePred value.
CallPred(pred, status) ==
    IF pred.kind = "Default" THEN DefaultStacktracePred(status)
    ELSE status \notin pred.noTrace

\* Predicates handed to WithLogging and StacktraceWhen.
Preds == {DefaultPred, StatusIsNot(<<>>), StatusIsNot(<<StatusOK>>)}

\* ---------------------------------------------------------------- texts

\* runtime.Stack's text with the leading newline recordStatus adds.
StackText == "\nstack"

\* strconv.Quote as the %q verb applies it to the written bytes.
Quote(b) == IF b = "" THEN "\"\"" ELSE "\"body\""

\* fmt.Sprintf("logging error output: %q\n", string(b)) as text chunks.
SprintfErrorOutput(b) == <<"logging error output: ", Quote(b), "\n">>

\* fmt.Sprintf of a handler's annotation message.
SprintfMsg(msg) == <<msg>>

\* ---------------------------------------------------------------- state

VARIABLES
    verbose,     \* klog.V(3).Enabled() of the process
    layers,      \* [Reqs -> LayerChoices]: WithLogging layers around the handler
    mwPred,      \* [Reqs -> Preds]: the pred given to WithLogging
    wcaps,       \* [Reqs -> WriterCaps]: capabilities of the writer the server gave
    pc,          \* [Reqs -> position of the request's ServeHTTP call chain]
    depth,       \* [Reqs -> number of WithLogging closures currently on the stack]
    ctx,         \* [Reqs -> respLogger pointer stored in req.Context(), or Nil]
    curW,        \* [Reqs -> the http.ResponseWriter handed down the chain]
    loggers,     \* heap of respLogger objects; a pointer is an index
    deferred,    \* [Reqs -> stack of <<layer, rl>>: the deferred rl.Log() calls]
    wlog,        \* [Reqs -> calls the underlying writer has received]
    calls,       \* [Reqs -> calls the handler has made on the writer it was given]
    kvCalls,     \* [Reqs -> the handler's AddKeyValue calls: context, key, value]
    klog,        \* records handed to the log sink, in order
    nops,        \* [Reqs -> calls the handler has made]
    handlerRan,  \* [Reqs -> the innermost handler was invoked]
    handlerEnd,  \* [Reqs -> "running", "returned" or <<"panic", v>> of the inner handler]
    outcome,     \* [Reqs -> how the outermost ServeHTTP ended]
    lastOp       \* the last call made and what it returned

vars == <<verbose, layers, mwPred, wcaps, pc, depth, ctx, curW, loggers,
          deferred, wlog, calls, kvCalls, klog, nops, handlerRan, handlerEnd,
          outcome, lastOp>>

\* -------------------------------------------------------------- requests

\* The fields of *http.Request that Log reads.
Request(r) ==
    [Method |-> "GET",
     RequestURI |-> IF r = 1 THEN "/one" ELSE "/two",
     UserAgent |-> "agent",
     RemoteAddr |-> IF r = 1 THEN "10.0.0.1" ELSE "10.0.0.2"]

\* ---------------------------------------------------------------- writers

\* A writer value is an object identity (kind, id) together with the set of
\* optional interfaces its dynamic type implements.
OrigWriter(r) == [kind |-> "orig", id |-> r, caps |-> wcaps[r]]

\* The optional interfaces *respLogger itself implements: it has a Hijack
\* method, and neither Flush nor CloseNotify.
RespLoggerCaps == {"hijack"}

\* The decorator itself used as an http.ResponseWriter.
RespLoggerWriter(p) == [kind |-> "respLogger", id |-> p, caps |-> RespLoggerCaps]

\* The outer wrapper around decorator p, of the shape that implements the
\* optional interfaces of the inner writer.
OuterWriter(p, inner) == [kind |-> "outer", id |-> p, caps |-> inner.caps]

\* responsewriter.WrapForHTTP1Or2(decorator) as newLogged's callers observe
\* it: for an inner writer without optional interfaces it returns the
\* decorator itself (the dynamic type is *respLogger); otherwise an outer
\* wrapper.
WrapForHTTP1Or2(p, inner) ==
    IF inner.caps = {} THEN RespLoggerWriter(p) ELSE OuterWriter(p, inner)

\* ------------------------------------------------------ respLogger methods

\* A respLogger literal whose status field starts at 200 instead of the
\* zero value.
NewRespLoggerPresetOK(r, w, startTime) ==
    [hijacked |-> FALSE,
     statusRecorded |-> FALSE,
     status |-> StatusOK,
     statusStack |-> "",
     addedInfo |-> <<>>,
     addedKeyValuePairs |-> <<>>,
     startTime |-> startTime,
     captureErrorOutput |-> FALSE,
     req |-> r,
     w |-> w,
     logStacktracePred |-> DefaultPred]

\* The respLogger literal of newLoggedWithStartTime.
NewRespLogger(r, w, startTime) ==
    [hijacked |-> FALSE,
     statusRecorded |-> FALSE,
     status |-> 0,
     statusStack |-> "",
     addedInfo |-> <<>>,
     addedKeyValuePairs |-> <<>>,
     startTime |-> startTime,
     captureErrorOutput |-> FALSE,
     req |-> r,
     w |-> w,
     logStacktracePred |-> DefaultPred]

\* rl.Unwrap()
Unwrap(rl) == rl.w

\* StacktraceWhen re-evaluating a status that is already recorded under the
\* new predicate.
StacktraceWhenReevaluating(rl, pred) ==
    IF rl.statusRecorded /\ CallPred(pred, rl.status)
    THEN [rl EXCEPT !.logStacktracePred = pred,
                    !.statusStack = StackText,
                    !.captureErrorOutput = TRUE]
    ELSE [rl EXCEPT !.logStacktracePred = pred]

\* rl.StacktraceWhen(pred)
StacktraceWhen(rl, pred) == [rl EXCEPT !.logStacktracePred = pred]

\* rl.Addf(format, data...): a newline, then the formatted text.
Addf(rl, text) == [rl EXCEPT !.addedInfo = (@ \o <<"\n">>) \o text]

\* AddKeyValue keeping one entry per key: a repeated key overwrites the
\* value stored for it.
AddKeyValueOverwrite(rl, key, value) ==
    LET kvs == rl.addedKeyValuePairs
        present == \E j \in 1..(Len(kvs) \div 2) : kvs[2 * j - 1] = key
    IN  IF present
        THEN [rl EXCEPT !.addedKeyValuePairs =
                 [i \in 1..Len(kvs) |->
                     IF i % 2 = 0 /\ kvs[i - 1] = key THEN value ELSE kvs[i]]]
        ELSE [rl EXCEPT !.addedKeyValuePairs = kvs \o <<key, value>>]

\* rl.AddKeyValue(key, value)
AddKeyValue(rl, key, value) ==
    [rl EXCEPT !.addedKeyValuePairs = @ \o <<key, value>>]

\* rl.recordStatus(status)
recordStatus(rl, status) ==
    IF CallPred(rl.logStacktracePred, status)
    THEN [rl EXCEPT !.status = status,
                    !.statusRecorded = TRUE,
                    !.statusStack = StackText,
                    !.captureErrorOutput = TRUE]
    ELSE [rl EXCEPT !.status = status,
                    !.statusRecorded = TRUE,
                    !.statusStack = ""]

\* rl.Write(b) recording StatusOK on every call, as it would without the
\* statusRecorded guard.
WriteRecordUnguarded(rl, b) ==
    LET rl1 == recordStatus(rl, StatusOK)
    IN  IF rl1.captureErrorOutput THEN Addf(rl1, SprintfErrorOutput(b)) ELSE rl1

\* rl.Write(b) looking at captureErrorOutput before it records the implicit
\* status.
WriteRecordEchoFirst(rl, b) ==
    LET rl1 == IF rl.captureErrorOutput THEN Addf(rl, SprintfErrorOutput(b)) ELSE rl
    IN  IF ~rl1.statusRecorded THEN recordStatus(rl1, StatusOK) ELSE rl1

\* The decorator's part of rl.Write(b), before the write is forwarded.
WriteRecord(rl, b) ==
    LET rl1 == IF ~rl.statusRecorded THEN recordStatus(rl, StatusOK) ELSE rl
    IN  IF rl1.captureErrorOutput THEN Addf(rl1, SprintfErrorOutput(b)) ELSE rl1

\* The decorator's part of rl.WriteHeader(status), before it is forwarded.
WriteHeaderRecord(rl, status) == recordStatus(rl, status)

\* The decorator's part of rl.Hijack(), before the inner Hijack is called.
HijackRecord(rl) == [rl EXCEPT !.hijacked = TRUE]

\* ------------------------------------------------------------------ Log

\* metrics.CleanVerb(verb, req) with no RequestInfo in the context: the
\* request method.
Verb(r) == Request(r).Method

\* time.Since(rl.startTime)
Latency(rl) == <<"since", rl.startTime>>

\* request.GetAuditIDTruncated(req) of a request without an audit ID.
AuditID(r) == ""

\* The status part with the addedInfo field appended outside the
\* hijacked/else branch.
StatusFieldsInfoAlways(rl) ==
    (IF rl.hijacked THEN <<"hijacked", TRUE>>
     ELSE <<"resp", rl.status>>
          \o (IF rl.statusStack # "" THEN <<"statusStack", rl.statusStack>> ELSE <<>>))
    \o (IF Len(rl.addedInfo) > 0 THEN <<"addedInfo", rl.addedInfo>> ELSE <<>>)

\* The status part of the record: the hijacked marker, or resp with the
\* optional statusStack and addedInfo.
StatusFields(rl) ==
    IF rl.hijacked THEN <<"hijacked", TRUE>>
    ELSE <<"resp", rl.status>>
         \o (IF rl.statusStack # "" THEN <<"statusStack", rl.statusStack>> ELSE <<>>)
         \o (IF Len(rl.addedInfo) > 0 THEN <<"addedInfo", rl.addedInfo>> ELSE <<>>)

\* keysAndValues as rl.Log() assembles it.
KeysAndValues(rl) ==
    <<"verb", Verb(rl.req),
      "URI", Request(rl.req).RequestURI,
      "latency", Latency(rl),
      "userAgent", Request(rl.req).UserAgent,
      "audit-ID", AuditID(rl.req),
      "srcIP", Request(rl.req).RemoteAddr>>
    \o rl.addedKeyValuePairs
    \o StatusFields(rl)

\* The record klog.InfoSDepth(1, "HTTP", keysAndValues...) hands to the sink;
\* by is the decorator whose Log() emitted it.
HTTPRecord(p, rl) ==
    [fn |-> "InfoS", msg |-> "HTTP", kv |-> KeysAndValues(rl), text |-> <<>>, by |-> p]

\* The record passthroughLogger.Addf hands to the sink: klog.V(2).Info(text).
PassthroughRecord(text) ==
    [fn |-> "V(2).Info", msg |-> "", kv |-> <<>>, text |-> text, by |-> Nil]

\* ------------------------------------------------------- context lookups

\* A lookup that ignores whose context it is given and returns the
\* decorator installed last.
respLoggerFromContextLatest(c) == IF c # Nil THEN Len(loggers) ELSE Nil

\* respLoggerFromContext(ctx): the *respLogger stored under
\* respLoggerContextKey, or nil.
respLoggerFromContext(c) == IF c # Nil THEN c ELSE Nil

\* LogOf without the context lookup: always a new passthroughLogger.
LogOfNoLookup(c) == [type |-> "*httplog.passthroughLogger", rl |-> Nil]

\* LogOf(req, w): the decorator, or a new passthroughLogger.
LogOf(c) ==
    IF respLoggerFromContext(c) # Nil
    THEN [type |-> "*httplog.respLogger", rl |-> respLoggerFromContext(c)]
    ELSE [type |-> "*httplog.passthroughLogger", rl |-> Nil]

\* Unlogged returning its fallback argument in both cases.
UnloggedFallbackOnly(c, w) == w

\* Unlogged(req, w)
Unlogged(c, w) ==
    IF respLoggerFromContext(c) # Nil THEN loggers[respLoggerFromContext(c)].w ELSE w

\* ------------------------------------------------------------ initial state

\* request.ReceivedTimestampFrom(ctx): whether the server recorded a
\* received timestamp for the request.
HasReceivedTimestamp(r) == r = 2

NoCompletion == [kind |-> "none", v |-> ""]
Returned == [kind |-> "return", v |-> ""]
Panicked(v) == [kind |-> "panic", v |-> v]

\* Requests in Active are being served; the others have not arrived.
InitWith(Active) ==
    /\ verbose \in BOOLEAN
    /\ layers \in [Reqs -> LayerChoices]
    /\ \A r \in Reqs \ Active : layers[r] = 0
    /\ mwPred \in [Reqs -> Preds]
    /\ \A r \in Reqs : (r \notin Active \/ layers[r] = 0) => mwPred[r] = DefaultPred
    /\ wcaps \in [Reqs -> WriterCaps]
    /\ \A r \in Reqs \ Active : wcaps[r] = {}
    /\ pc = [r \in Reqs |-> IF r \in Active THEN "serving" ELSE "idle"]
    /\ depth = [r \in Reqs |-> 0]
    /\ ctx = [r \in Reqs |-> Nil]
    /\ curW = [r \in Reqs |-> OrigWriter(r)]
    /\ loggers = <<>>
    /\ deferred = [r \in Reqs |-> <<>>]
    /\ wlog = [r \in Reqs |-> <<>>]
    /\ calls = [r \in Reqs |-> <<>>]
    /\ kvCalls = [r \in Reqs |-> <<>>]
    /\ klog = <<>>
    /\ nops = [r \in Reqs |-> 0]
    /\ handlerRan = [r \in Reqs |-> FALSE]
    /\ handlerEnd = [r \in Reqs |-> NoCompletion]
    /\ outcome = [r \in Reqs |-> NoCompletion]
    /\ lastOp = [op |-> "none", r |-> Nil, res |-> Nil]

Init == InitWith({1})

\* ------------------------------------------------------------- middleware

\* Position after a frame at stack depth d has finished.
AfterFrame(d) == IF d = 0 THEN "done" ELSE "unwinding"

\* The closure without its check for a decorator already in the context: it
\* installs a decorator on every entry.
WithLoggingEnterUnchecked(r) ==
    /\ pc[r] = "serving"
    /\ depth[r] < layers[r]
    /\ LET startTime == IF HasReceivedTimestamp(r) THEN "received" ELSE "now"
           p == Len(loggers) + 1
           logger == NewRespLogger(r, curW[r], startTime)
           rw == WrapForHTTP1Or2(p, Unwrap(logger))
       IN  /\ loggers' = Append(loggers, StacktraceWhen(logger, mwPred[r]))
           /\ curW' = [curW EXCEPT ![r] = rw]
           /\ ctx' = [ctx EXCEPT ![r] = p]
           /\ deferred' = [deferred EXCEPT ![r] =
                              IF verbose THEN <<<<depth[r] + 1, p>>>> \o @ ELSE @]
           /\ depth' = [depth EXCEPT ![r] = @ + 1]
           /\ lastOp' = [op |-> "WithLogging", r |-> r, res |-> "installed"]
    /\ UNCHANGED <<kvCalls, verbose, layers, mwPred, wcaps, pc, outcome, wlog, calls, klog,
                   nops, handlerRan, handlerEnd>>

\* The closure WithLogging returns, from its entry to the call of
\* handler.ServeHTTP(w, req): either it panics on a request that already
\* carries a decorator, or it installs a new one.
WithLoggingEnter(r) ==
    /\ pc[r] = "serving"
    /\ depth[r] < layers[r]
    /\ IF respLoggerFromContext(ctx[r]) # Nil
       THEN /\ pc' = [pc EXCEPT ![r] = AfterFrame(depth[r])]
            /\ outcome' = [outcome EXCEPT ![r] = Panicked("multiple WithLogging calls!")]
            /\ lastOp' = [op |-> "WithLogging", r |-> r, res |-> "panic"]
            /\ UNCHANGED <<depth, ctx, curW, loggers, deferred>>
       ELSE LET startTime == IF HasReceivedTimestamp(r) THEN "received" ELSE "now"
                p == Len(loggers) + 1
                logger == NewRespLogger(r, curW[r], startTime)
                rw == WrapForHTTP1Or2(p, Unwrap(logger))
            IN  /\ loggers' = Append(loggers, StacktraceWhen(logger, mwPred[r]))
                /\ curW' = [curW EXCEPT ![r] = rw]
                /\ ctx' = [ctx EXCEPT ![r] = p]
                /\ deferred' = [deferred EXCEPT ![r] =
                                   IF verbose THEN <<<<depth[r] + 1, p>>>> \o @ ELSE @]
                /\ depth' = [depth EXCEPT ![r] = @ + 1]
                /\ lastOp' = [op |-> "WithLogging", r |-> r, res |-> "installed"]
                /\ UNCHANGED <<pc, outcome>>
    /\ UNCHANGED <<kvCalls, verbose, layers, mwPred, wcaps, wlog, calls, klog, nops,
                   handlerRan, handlerEnd>>

\* handler.ServeHTTP(w, req) of the innermost layer: the inner handler starts.
HandlerStart(r) ==
    /\ pc[r] = "serving"
    /\ depth[r] = layers[r]
    /\ pc' = [pc EXCEPT ![r] = "handler"]
    /\ handlerRan' = [handlerRan EXCEPT ![r] = TRUE]
    /\ lastOp' = [op |-> "HandlerStart", r |-> r, res |-> Nil]
    /\ UNCHANGED <<kvCalls, verbose, layers, mwPred, wcaps, depth, ctx, curW, loggers,
                   deferred, wlog, calls, klog, nops, handlerEnd, outcome>>

\* The inner handler returns normally.
HandlerReturn(r) ==
    /\ pc[r] = "handler"
    /\ pc' = [pc EXCEPT ![r] = AfterFrame(depth[r])]
    /\ handlerEnd' = [handlerEnd EXCEPT ![r] = Returned]
    /\ outcome' = [outcome EXCEPT ![r] = Returned]
    /\ lastOp' = [op |-> "HandlerReturn", r |-> r, res |-> Nil]
    /\ UNCHANGED <<kvCalls, verbose, layers, mwPred, wcaps, depth, ctx, curW, loggers,
                   deferred, wlog, calls, klog, nops, handlerRan>>

\* The inner handler panics with value v.
HandlerPanic(r) ==
    /\ pc[r] = "handler"
    /\ \E v \in PanicValues :
          /\ handlerEnd' = [handlerEnd EXCEPT ![r] = Panicked(v)]
          /\ outcome' = [outcome EXCEPT ![r] = Panicked(v)]
    /\ pc' = [pc EXCEPT ![r] = AfterFrame(depth[r])]
    /\ lastOp' = [op |-> "HandlerPanic", r |-> r, res |-> Nil]
    /\ UNCHANGED <<kvCalls, verbose, layers, mwPred, wcaps, depth, ctx, curW, loggers,
                   deferred, wlog, calls, klog, nops, handlerRan>>

\* The closure calling rl.Log() after handler.ServeHTTP instead of deferring
\* it: a panic passing through skips the call.
WithLoggingExitUndeferred(r) ==
    /\ pc[r] = "unwinding"
    /\ depth[r] > 0
    /\ IF deferred[r] # <<>> /\ Head(deferred[r])[1] = depth[r]
       THEN LET p == Head(deferred[r])[2]
            IN  /\ klog' = IF outcome[r].kind = "panic" THEN klog
                           ELSE Append(klog, HTTPRecord(p, loggers[p]))
                /\ deferred' = [deferred EXCEPT ![r] = Tail(@)]
       ELSE UNCHANGED <<klog, deferred>>
    /\ depth' = [depth EXCEPT ![r] = @ - 1]
    /\ pc' = [pc EXCEPT ![r] = AfterFrame(depth[r] - 1)]
    /\ lastOp' = [op |-> "WithLoggingExit", r |-> r, res |-> Nil]
    /\ UNCHANGED <<kvCalls, verbose, layers, mwPred, wcaps, ctx, curW, loggers, wlog, calls,
                   nops, handlerRan, handlerEnd, outcome>>

\* The closure with a recover() in its deferred function: it logs and then
\* returns normally.
WithLoggingExitRecovering(r) ==
    /\ pc[r] = "unwinding"
    /\ depth[r] > 0
    /\ IF deferred[r] # <<>> /\ Head(deferred[r])[1] = depth[r]
       THEN LET p == Head(deferred[r])[2]
            IN  /\ klog' = Append(klog, HTTPRecord(p, loggers[p]))
                /\ deferred' = [deferred EXCEPT ![r] = Tail(@)]
                /\ outcome' = [outcome EXCEPT ![r] = Returned]
       ELSE UNCHANGED <<klog, deferred, outcome>>
    /\ depth' = [depth EXCEPT ![r] = @ - 1]
    /\ pc' = [pc EXCEPT ![r] = AfterFrame(depth[r] - 1)]
    /\ lastOp' = [op |-> "WithLoggingExit", r |-> r, res |-> Nil]
    /\ UNCHANGED <<kvCalls, verbose, layers, mwPred, wcaps, ctx, curW, loggers, wlog, calls,
                   nops, handlerRan, handlerEnd>>

\* One WithLogging closure finishes, by return or by an unwinding panic: its
\* deferred rl.Log() runs if it registered one; it has no recover, so the
\* completion in flight is left as it is.
WithLoggingExit(r) ==
    /\ pc[r] = "unwinding"
    /\ depth[r] > 0
    /\ IF deferred[r] # <<>> /\ Head(deferred[r])[1] = depth[r]
       THEN LET p == Head(deferred[r])[2]
            IN  /\ klog' = Append(klog, HTTPRecord(p, loggers[p]))
                /\ deferred' = [deferred EXCEPT ![r] = Tail(@)]
       ELSE UNCHANGED <<klog, deferred>>
    /\ depth' = [depth EXCEPT ![r] = @ - 1]
    /\ pc' = [pc EXCEPT ![r] = AfterFrame(depth[r] - 1)]
    /\ lastOp' = [op |-> "WithLoggingExit", r |-> r, res |-> Nil]
    /\ UNCHANGED <<kvCalls, verbose, layers, mwPred, wcaps, ctx, curW, loggers, wlog, calls,
                   nops, handlerRan, handlerEnd, outcome>>

\* ------------------------------------------------------ underlying writer

\* len(b)
BodyLen(b) == IF b = "" THEN 0 ELSE 4

\* What the underlying writer's Write(b) may return: all of b and no error,
\* or nothing and an error.
WriteResults(b) ==
    {[n |-> BodyLen(b), err |-> "nil"]} \cup
    (IF b = "" THEN {} ELSE {[n |-> 0, err |-> "write failed"]})

\* What the underlying writer's Hijack() may return.
HijackResults == {[conn |-> "conn", err |-> "nil"], [conn |-> "nil", err |-> "hijack failed"]}

\* A call arriving at a writer: only the writers the server gave record
\* calls; rl.w is always such a writer, because WithLogging panics before it
\* would decorate a decorated writer.
Forward(wl, w, call) ==
    IF w.kind = "orig" THEN [wl EXCEPT ![w.id] = Append(@, call)] ELSE wl

\* Contexts a handler can pass to the context-addressed functions: the
\* request's own, or one derived from nothing (it carries no decorator).
Contexts(r) == {ctx[r], Nil}

\* ------------------------------------------------------- handler's calls

InHandler(r) == pc[r] = "handler" /\ nops[r] < MaxOps

\* "return rl.w.Write(b)": what Write returns, given what the underlying
\* writer's Write returned.
WriteReturn(res) == res

\* WriteHeader guarded by statusRecorded as a whole: once a status is
\* recorded, a further WriteHeader neither records nor reaches rl.w.
WriteHeaderOnce(r) ==
    /\ InHandler(r)
    /\ \E status \in Statuses :
          LET w == curW[r]
              call == [call |-> "WriteHeader", status |-> status, body |-> ""]
          IN  /\ IF w.kind = "orig"
                 THEN /\ wlog' = Forward(wlog, w, call)
                      /\ UNCHANGED loggers
                 ELSE IF loggers[w.id].statusRecorded
                 THEN UNCHANGED <<loggers, wlog>>
                 ELSE /\ loggers' = [loggers EXCEPT ![w.id] = WriteHeaderRecord(@, status)]
                      /\ wlog' = Forward(wlog, loggers[w.id].w, call)
              /\ calls' = [calls EXCEPT ![r] = Append(@, call)]
              /\ lastOp' = [op |-> "WriteHeader", r |-> r, res |-> status]
    /\ nops' = [nops EXCEPT ![r] = @ + 1]
    /\ UNCHANGED <<kvCalls, verbose, layers, mwPred, wcaps, pc, depth, ctx, curW,
                   deferred, klog, handlerRan, handlerEnd, outcome>>

\* w.WriteHeader(status) on the writer the handler was given.
WriteHeader(r) ==
    /\ InHandler(r)
    /\ \E status \in Statuses :
          LET w == curW[r]
              call == [call |-> "WriteHeader", status |-> status, body |-> ""]
          IN  /\ IF w.kind = "orig"
                 THEN /\ wlog' = Forward(wlog, w, call)
                      /\ UNCHANGED loggers
                 ELSE /\ loggers' = [loggers EXCEPT ![w.id] = WriteHeaderRecord(@, status)]
                      /\ wlog' = Forward(wlog, loggers[w.id].w, call)
              /\ calls' = [calls EXCEPT ![r] = Append(@, call)]
              /\ lastOp' = [op |-> "WriteHeader", r |-> r, res |-> status]
    /\ nops' = [nops EXCEPT ![r] = @ + 1]
    /\ UNCHANGED <<kvCalls, verbose, layers, mwPred, wcaps, pc, depth, ctx, curW, deferred,
                   klog, handlerRan, handlerEnd, outcome>>

\* w.Write(b) on the writer the handler was given; it returns what the
\* underlying writer returned.
Write(r) ==
    /\ InHandler(r)
    /\ \E b \in Bodies : \E res \in WriteResults(b) :
          LET w == curW[r]
              call == [call |-> "Write", status |-> 0, body |-> b]
          IN  /\ IF w.kind = "orig"
                 THEN /\ wlog' = Forward(wlog, w, call)
                      /\ UNCHANGED loggers
                 ELSE /\ loggers' = [loggers EXCEPT ![w.id] = WriteRecord(@, b)]
                      /\ wlog' = Forward(wlog, loggers[w.id].w, call)
              /\ calls' = [calls EXCEPT ![r] = Append(@, call)]
              /\ lastOp' = [op |-> "Write", r |-> r,
                            res |-> [under |-> res, ret |-> WriteReturn(res)]]
    /\ nops' = [nops EXCEPT ![r] = @ + 1]
    /\ UNCHANGED <<kvCalls, verbose, layers, mwPred, wcaps, pc, depth, ctx, curW, deferred,
                   klog, handlerRan, handlerEnd, outcome>>

\* w.(http.Hijacker).Hijack() on a writer that exposes Hijack. On a
\* decorator the flag is set first; the type assertion rl.w.(http.Hijacker)
\* then panics if rl.w has no Hijack, and the handler unwinds.
Hijack(r) ==
    /\ InHandler(r)
    /\ "hijack" \in curW[r].caps
    /\ LET w == curW[r]
           call == [call |-> "Hijack", status |-> 0, body |-> ""]
           inner == IF w.kind = "orig" THEN w ELSE loggers[w.id].w
       IN  /\ calls' = [calls EXCEPT ![r] = Append(@, call)]
           /\ loggers' = IF w.kind = "orig" THEN loggers
                         ELSE [loggers EXCEPT ![w.id] = HijackRecord(@)]
           /\ IF "hijack" \in inner.caps
              THEN /\ \E res \in HijackResults :
                         lastOp' = [op |-> "Hijack", r |-> r, res |-> res]
                   /\ wlog' = Forward(wlog, inner, call)
                   /\ UNCHANGED <<pc, handlerEnd, outcome>>
              ELSE /\ lastOp' = [op |-> "Hijack", r |-> r, res |-> "panic"]
                   /\ pc' = [pc EXCEPT ![r] = AfterFrame(depth[r])]
                   /\ handlerEnd' = [handlerEnd EXCEPT ![r] = Panicked("interface conversion")]
                   /\ outcome' = [outcome EXCEPT ![r] = Panicked("interface conversion")]
                   /\ UNCHANGED wlog
    /\ nops' = [nops EXCEPT ![r] = @ + 1]
    /\ UNCHANGED <<kvCalls, verbose, layers, mwPred, wcaps, depth, ctx, curW, deferred,
                   klog, handlerRan>>

\* LogOf(req, w).Addf(msg)
LogOfAddf(r) ==
    /\ InHandler(r)
    /\ \E c \in Contexts(r) : \E msg \in Msgs :
          LET lg == LogOf(c)
          IN  /\ IF lg.type = "*httplog.respLogger"
                 THEN /\ loggers' = [loggers EXCEPT ![lg.rl] = Addf(@, SprintfMsg(msg))]
                      /\ UNCHANGED klog
                 ELSE /\ klog' = Append(klog, PassthroughRecord(SprintfMsg(msg)))
                      /\ UNCHANGED loggers
              /\ lastOp' = [op |-> "LogOf", r |-> r,
                            res |-> [c |-> c, msg |-> msg, logger |-> lg]]
    /\ nops' = [nops EXCEPT ![r] = @ + 1]
    /\ UNCHANGED <<kvCalls, verbose, layers, mwPred, wcaps, pc, depth, ctx, curW, deferred,
                   wlog, calls, handlerRan, handlerEnd, outcome>>

\* AddInfof falling back to the sink, as LogOf's logger does, when the
\* context carries no decorator.
AddInfofWithFallback(r) ==
    /\ InHandler(r)
    /\ \E c \in Contexts(r) : \E msg \in Msgs :
          /\ IF respLoggerFromContext(c) # Nil
             THEN /\ loggers' = [loggers EXCEPT ![respLoggerFromContext(c)] =
                                    Addf(@, SprintfMsg(msg))]
                  /\ UNCHANGED klog
             ELSE /\ klog' = Append(klog, PassthroughRecord(SprintfMsg(msg)))
                  /\ UNCHANGED loggers
          /\ lastOp' = [op |-> "AddInfof", r |-> r, res |-> [c |-> c, msg |-> msg]]
    /\ nops' = [nops EXCEPT ![r] = @ + 1]
    /\ UNCHANGED <<kvCalls, verbose, layers, mwPred, wcaps, pc, depth, ctx, curW, deferred,
                   wlog, calls, handlerRan, handlerEnd, outcome>>

\* AddInfof(ctx, msg)
AddInfof(r) ==
    /\ InHandler(r)
    /\ \E c \in Contexts(r) : \E msg \in Msgs :
          /\ loggers' = IF respLoggerFromContext(c) # Nil
                        THEN [loggers EXCEPT ![respLoggerFromContext(c)] =
                                 Addf(@, SprintfMsg(msg))]
                        ELSE loggers
          /\ lastOp' = [op |-> "AddInfof", r |-> r, res |-> [c |-> c, msg |-> msg]]
    /\ nops' = [nops EXCEPT ![r] = @ + 1]
    /\ UNCHANGED <<kvCalls, verbose, layers, mwPred, wcaps, pc, depth, ctx, curW, deferred,
                   wlog, calls, klog, handlerRan, handlerEnd, outcome>>

\* AddKeyValue(ctx, key, value)
AddKeyValueCtx(r) ==
    /\ InHandler(r)
    /\ \E c \in Contexts(r) : \E kv \in KVInputs :
          /\ loggers' = IF respLoggerFromContext(c) # Nil
                        THEN [loggers EXCEPT ![respLoggerFromContext(c)] =
                                 AddKeyValue(@, kv[1], kv[2])]
                        ELSE loggers
          /\ kvCalls' = [kvCalls EXCEPT ![r] =
                            Append(@, [c |-> c, key |-> kv[1], value |-> kv[2]])]
          /\ lastOp' = [op |-> "AddKeyValue", r |-> r,
                        res |-> [c |-> c, key |-> kv[1], value |-> kv[2]]]
    /\ nops' = [nops EXCEPT ![r] = @ + 1]
    /\ UNCHANGED <<verbose, layers, mwPred, wcaps, pc, depth, ctx, curW, deferred,
                   wlog, calls, klog, handlerRan, handlerEnd, outcome>>

\* respLoggerFromRequest(req).StacktraceWhen(pred)
StacktraceWhenCall(r) ==
    /\ InHandler(r)
    /\ respLoggerFromContext(ctx[r]) # Nil
    /\ \E pred \in Preds :
          /\ loggers' = [loggers EXCEPT ![respLoggerFromContext(ctx[r])] =
                            StacktraceWhen(@, pred)]
          /\ lastOp' = [op |-> "StacktraceWhen", r |-> r, res |-> pred]
    /\ nops' = [nops EXCEPT ![r] = @ + 1]
    /\ UNCHANGED <<kvCalls, verbose, layers, mwPred, wcaps, pc, depth, ctx, curW, deferred,
                   wlog, calls, klog, handlerRan, handlerEnd, outcome>>

\* Unlogged(req, w)
UnloggedCall(r) ==
    /\ InHandler(r)
    /\ \E c \in Contexts(r) :
          lastOp' = [op |-> "Unlogged", r |-> r, res |-> [c |-> c, w |-> Unlogged(c, curW[r])]]
    /\ nops' = [nops EXCEPT ![r] = @ + 1]
    /\ UNCHANGED <<kvCalls, verbose, layers, mwPred, wcaps, pc, depth, ctx, curW, loggers,
                   deferred, wlog, calls, klog, handlerRan, handlerEnd, outcome>>

\* ------------------------------------------------------------ specification

Step(r) ==
    \/ WithLoggingEnter(r)
    \/ HandlerStart(r)
    \/ WriteHeader(r)
    \/ Write(r)
    \/ Hijack(r)
    \/ LogOfAddf(r)
    \/ AddInfof(r)
    \/ AddKeyValueCtx(r)
    \/ StacktraceWhenCall(r)
    \/ UnloggedCall(r)
    \/ HandlerReturn(r)
    \/ HandlerPanic(r)
    \/ WithLoggingExit(r)

Next == \E r \in Reqs : Step(r)

Spec == Init /\ [][Next]_vars

\* ------------------------------------------------------------ properties

\* The WriteHeader and Write calls among the handler's calls.
StatusCalls(cs) == SelectSeq(cs, LAMBDA c : c.call \in {"WriteHeader", "Write"})

\* The status the first status-setting call of cs sets.
FirstStatus(cs) == IF cs[1].call = "WriteHeader" THEN cs[1].status ELSE StatusOK

\* C1: on a decorator, while only Write has been called the recorded status
\* is 200, and after WriteHeader(s) followed only by Write calls the recorded
\* status is s.
C1_LoggedStatus ==
    \A r \in Reqs :
        ctx[r] # Nil =>
            LET cs == StatusCalls(calls[r])
                rl == loggers[ctx[r]]
            IN  cs # <<>> =>
                  /\ (\A i \in 1..Len(cs) : cs[i].call = "Write")
                        => rl.status = StatusOK
                  /\ (cs[1].call = "WriteHeader"
                        /\ \A i \in 2..Len(cs) : cs[i].call = "Write")
                        => rl.status = cs[1].status

\* C1 witness: WriteHeader(403) followed by two Write calls has left 403.
C1_Witness ==
    /\ ctx[1] # Nil
    /\ Len(StatusCalls(calls[1])) = 3
    /\ StatusCalls(calls[1])[1].call = "WriteHeader"
    /\ StatusCalls(calls[1])[1].status = StatusForbidden
    /\ StatusCalls(calls[1])[2].call = "Write"
    /\ StatusCalls(calls[1])[3].call = "Write"
    /\ loggers[ctx[1]].status = StatusForbidden

\* C2 (as claimed): the recorded status always equals the first status set
\* on the decorator; a later WriteHeader does not change it.
C2_StatusIsFirstSet ==
    \A r \in Reqs :
        ctx[r] # Nil =>
            LET cs == StatusCalls(calls[r])
            IN  cs # <<>> => loggers[ctx[r]].status = FirstStatus(cs)

\* The decorators created for request r.
DecoratorsOf(r) == {p \in DOMAIN loggers : loggers[p].req = r}

\* The decorator as WithLogging leaves it when it hands over to the handler.
Installed(r) ==
    StacktraceWhen(
        NewRespLogger(r, OrigWriter(r),
                      IF HasReceivedTimestamp(r) THEN "received" ELSE "now"),
        mwPred[r])

\* C3: under nested WithLogging the second installation panics: the
\* innermost handler is never invoked, the request never has a second
\* decorator, and once the panic is raised the context still carries the
\* first decorator, untouched, and the request ends with that panic.
C3_NestedWithLoggingPanics ==
    \A r \in Reqs :
        layers[r] = 2 =>
            /\ ~handlerRan[r]
            /\ Cardinality(DecoratorsOf(r)) <= 1
            /\ pc[r] \in {"unwinding", "done"} =>
                  /\ outcome[r] = Panicked("multiple WithLogging calls!")
                  /\ DecoratorsOf(r) = {ctx[r]}
                  /\ loggers[ctx[r]] = Installed(r)

\* C3 witness: a request served through two layers has ended in the panic
\* with one decorator created.
C3_Witness ==
    /\ layers[1] = 2
    /\ pc[1] = "done"
    /\ outcome[1].kind = "panic"
    /\ Len(loggers) = 1

\* The "HTTP" records the sink received from decorators of request r.
HTTPRecords(r) ==
    SelectSeq(klog, LAMBDA e : e.fn = "InfoS" /\ loggers[e.by].req = r)

\* C4: with verbose logging on, a request served through the middleware has
\* no record while the chain below the middleware is still running, never
\* more than one, and exactly one when ServeHTTP has ended, by return or by
\* panic.
C4_LogExactlyOnce ==
    verbose =>
        \A r \in Reqs :
            layers[r] >= 1 =>
                /\ Len(HTTPRecords(r)) <= 1
                /\ pc[r] \in {"serving", "handler"} => Len(HTTPRecords(r)) = 0
                /\ pc[r] = "done" => Len(HTTPRecords(r)) = 1

\* C4 witness: the handler panicked and the one record was emitted.
C4_Witness ==
    /\ verbose
    /\ pc[1] = "done"
    /\ handlerRan[1]
    /\ handlerEnd[1].kind = "panic"
    /\ Len(HTTPRecords(1)) = 1

\* C5: when the inner handler panics with v, the panic in flight stays v
\* through the middleware and ServeHTTP ends with it; with verbose logging
\* the record has been emitted by then and renders what the decorator held
\* when the handler failed.
C5_PanicPropagates ==
    \A r \in Reqs :
        handlerEnd[r].kind = "panic" =>
            /\ pc[r] \in {"unwinding", "done"}
            /\ outcome[r] = handlerEnd[r]
            /\ (pc[r] = "done" /\ verbose /\ layers[r] >= 1) =>
                  /\ Len(HTTPRecords(r)) = 1
                  /\ HTTPRecords(r)[1].kv = KeysAndValues(loggers[ctx[r]])

\* C5 witness: a handler that recorded a status and an annotation panicked
\* with "boom"; the request ended with "boom" and one record.
C5_Witness ==
    /\ verbose
    /\ pc[1] = "done"
    /\ handlerEnd[1] = Panicked("boom")
    /\ outcome[1] = Panicked("boom")
    /\ Len(HTTPRecords(1)) = 1
    /\ loggers[ctx[1]].statusRecorded
    /\ loggers[ctx[1]].addedInfo # <<>>

\* C6 (as claimed): the writer the wrap returns exposes exactly the optional
\* capabilities of the underlying writer, for every underlying writer.
C6_WrapPreservesCapabilities ==
    \A r \in Reqs : ctx[r] # Nil => curW[r].caps = OrigWriter(r).caps

\* The keys of a flat key/value list.
Keys(kv) == {kv[2 * j - 1] : j \in 1..(Len(kv) \div 2)}

\* The value that follows the first occurrence of key k.
ValueOf(kv, k) ==
    kv[2 * (CHOOSE j \in 1..(Len(kv) \div 2) :
               /\ kv[2 * j - 1] = k
               /\ \A i \in 1..(j - 1) : kv[2 * i - 1] # k)]

\* Hijack is among the handler's calls for request r.
HijackCalled(r) == \E i \in 1..Len(calls[r]) : calls[r][i].call = "Hijack"

\* C7: once Hijack has been called on a decorator its hijacked flag stays
\* set whatever is called afterwards, and a record emitted for it carries
\* hijacked=true and no resp, statusStack or addedInfo field.
C7_HijackedRecord ==
    \A r \in Reqs :
        (ctx[r] # Nil /\ HijackCalled(r)) =>
            /\ loggers[ctx[r]].hijacked
            /\ \A i \in 1..Len(HTTPRecords(r)) :
                  LET kv == HTTPRecords(r)[i].kv
                  IN  /\ "hijacked" \in Keys(kv)
                      /\ ValueOf(kv, "hijacked") = TRUE
                      /\ Keys(kv) \cap {"resp", "statusStack", "addedInfo"} = {}

\* C7 witness: Hijack, then WriteHeader(500) and a Write that was echoed,
\* and the record has been emitted.
C7_Witness ==
    /\ ctx[1] # Nil
    /\ Len(calls[1]) = 3
    /\ calls[1][1].call = "Hijack"
    /\ calls[1][2].call = "WriteHeader"
    /\ calls[1][3].call = "Write"
    /\ loggers[ctx[1]].statusStack # ""
    /\ loggers[ctx[1]].addedInfo # <<>>
    /\ Len(HTTPRecords(1)) = 1

\* C8: whenever the request carries a decorator, Unlogged returns the writer
\* the server handed to the middleware and Unwrap returns the writer the
\* decorator was constructed with; with no decorator in the context Unlogged
\* returns its argument; every Unlogged call the handler made returned
\* accordingly.
C8_OriginalWriterRecoverable ==
    \A r \in Reqs :
        /\ ctx[r] # Nil => Unlogged(ctx[r], curW[r]) = OrigWriter(r)
        /\ \A p \in DecoratorsOf(r) : Unwrap(loggers[p]) = OrigWriter(r)
        /\ Unlogged(Nil, curW[r]) = curW[r]
        /\ (lastOp.op = "Unlogged" /\ lastOp.r = r) =>
              lastOp.res.w = IF lastOp.res.c # Nil THEN OrigWriter(r) ELSE curW[r]

\* C8 witness: after two writer calls on the decorator, Unlogged was called
\* with the request's context and returned the original writer.
C8_Witness ==
    /\ lastOp.op = "Unlogged"
    /\ lastOp.res.c # Nil
    /\ lastOp.res.w = OrigWriter(1)
    /\ Len(calls[1]) = 2

\* C9: LogOf(...).Addf with the request's context, when a decorator is
\* installed, gets the installed decorator and appends to its annotation
\* text without touching the sink; with a context that carries none it gets
\* a passthroughLogger, the sink receives the text at once and no decorator
\* changes.
C9_LogOf ==
    [][lastOp'.op = "LogOf" =>
          LET r == lastOp'.r
              c == lastOp'.res.c
              lg == lastOp'.res.logger
              text == <<lastOp'.res.msg>>
          IN  IF c # Nil
              THEN /\ c = ctx[r]
                   /\ lg = [type |-> "*httplog.respLogger", rl |-> ctx[r]]
                   /\ loggers' = [loggers EXCEPT
                                     ![c].addedInfo = (@ \o <<"\n">>) \o text]
                   /\ klog' = klog
              ELSE /\ lg.type = "*httplog.passthroughLogger"
                   /\ lg.type # "*httplog.respLogger"
                   /\ loggers' = loggers
                   /\ klog' = Append(klog, PassthroughRecord(text))
      ]_vars

\* C9 witness: with a decorator installed and holding a status, a LogOf
\* call with a bare context got the passthroughLogger and the sink the text.
C9_Witness ==
    /\ lastOp.op = "LogOf"
    /\ lastOp.res.c = Nil
    /\ ctx[1] # Nil
    /\ loggers[ctx[1]].statusRecorded
    /\ klog # <<>>
    /\ klog[Len(klog)].fn = "V(2).Info"

\* What a call of a context-addressed function leaves alone: everything but
\* the decorators (and the bookkeeping of the handler's calls).
ContextFunctionFrame ==
    UNCHANGED <<verbose, layers, mwPred, wcaps, pc, depth, ctx, curW, deferred,
                wlog, calls, klog, handlerRan, handlerEnd, outcome>>

\* C10: AddInfof(ctx, ...) and AddKeyValue(ctx, k, v) change nothing and do
\* not fail when ctx carries no decorator; otherwise the carried decorator
\* becomes what its Addf / AddKeyValue makes of it and nothing else changes.
C10_ContextFunctions ==
    [][/\ lastOp'.op = "AddInfof" =>
            LET c == lastOp'.res.c
            IN  /\ ContextFunctionFrame
                /\ loggers' = IF c = Nil THEN loggers
                              ELSE [loggers EXCEPT
                                       ![c] = Addf(@, SprintfMsg(lastOp'.res.msg))]
       /\ lastOp'.op = "AddKeyValue" =>
            LET c == lastOp'.res.c
            IN  /\ ContextFunctionFrame
                /\ loggers' = IF c = Nil THEN loggers
                              ELSE [loggers EXCEPT
                                       ![c] = AddKeyValue(@, lastOp'.res.key,
                                                          lastOp'.res.value)]
      ]_vars

\* C10 witness: with a decorator installed that holds a key/value pair,
\* AddInfof was called with a bare context.
C10_Witness ==
    /\ lastOp.op = "AddInfof"
    /\ lastOp.res.c = Nil
    /\ ctx[1] # Nil
    /\ loggers[ctx[1]].addedKeyValuePairs # <<>>
    /\ pc[1] = "handler"

\* The keys of the six fixed fields, in the order Log writes them.
FixedKeys == <<"verb", "URI", "latency", "userAgent", "audit-ID", "srcIP">>

\* The AddKeyValue calls of request r that reached decorator p, in call order.
PairsAddedTo(r, p) == SelectSeq(kvCalls[r], LAMBDA a : a.c = p)

\* C11: a record emitted by a decorator holds the six fixed fields, then one
\* (key, value) entry per AddKeyValue call in call order (repeated keys
\* repeated), then the hijacked marker or the resp field, hijacked or not.
C11_KeyValuePairsInOrder ==
    \A i \in 1..Len(klog) :
        klog[i].fn = "InfoS" =>
            LET kv == klog[i].kv
                p == klog[i].by
                added == PairsAddedTo(loggers[p].req, p)
                n == Len(added)
                base == 2 * Len(FixedKeys)
            IN  /\ Len(kv) >= base + 2 * n + 2
                /\ \A j \in 1..Len(FixedKeys) : kv[2 * j - 1] = FixedKeys[j]
                /\ \A j \in 1..n :
                      /\ kv[base + 2 * j - 1] = added[j].key
                      /\ kv[base + 2 * j] = added[j].value
                /\ kv[base + 2 * n + 1] =
                      IF loggers[p].hijacked THEN "hijacked" ELSE "resp"

\* C11 witness: a hijacked request whose handler added the key k1 twice,
\* with v1 and then v2, has its record.
C11_Witness ==
    /\ Len(HTTPRecords(1)) = 1
    /\ loggers[ctx[1]].hijacked
    /\ Len(PairsAddedTo(1, ctx[1])) = 2
    /\ PairsAddedTo(1, ctx[1])[1].value = "v1"
    /\ PairsAddedTo(1, ctx[1])[2].value = "v2"

\* ------------------------------------------------ the predicates alone

\* Status codes DefaultStacktracePred is called with.
StatusRange == (0 - MaxStatus)..MaxStatus

\* Status codes of the exclude lists and of the calls of their predicates.
ListStatuses == {StatusOK, StatusCreated, StatusAccepted}

\* The exclude lists: every list over ListStatuses up to MaxListLen long,
\* repetitions and every order included.
ExcludeLists == UNION {[1..n -> ListStatuses] : n \in 0..MaxListLen}

\* No request is being served; a behaviour is one call of a predicate.
InitPred == InitWith({})

\* DefaultStacktracePred(status)
CallDefaultStacktracePred ==
    /\ lastOp.op = "none"
    /\ \E status \in StatusRange :
          lastOp' = [op |-> "DefaultStacktracePred", r |-> Nil,
                     res |-> [status |-> status,
                              result |-> DefaultStacktracePred(status)]]
    /\ UNCHANGED <<kvCalls, verbose, layers, mwPred, wcaps, pc, depth, ctx, curW,
                   loggers, deferred, wlog, calls, klog, nops, handlerRan,
                   handlerEnd, outcome>>

\* StatusIsNot(statuses...)(status)
CallStatusIsNot ==
    /\ lastOp.op = "none"
    /\ \E statuses \in ExcludeLists : \E status \in ListStatuses :
          lastOp' = [op |-> "StatusIsNot", r |-> Nil,
                     res |-> [statuses |-> statuses, status |-> status,
                              result |-> CallPred(StatusIsNot(statuses), status)]]
    /\ UNCHANGED <<kvCalls, verbose, layers, mwPred, wcaps, pc, depth, ctx, curW,
                   loggers, deferred, wlog, calls, klog, nops, handlerRan,
                   handlerEnd, outcome>>

NextPred == CallDefaultStacktracePred \/ CallStatusIsNot

SpecPred == InitPred /\ [][NextPred]_vars

\* C12: DefaultStacktracePred(status) is true exactly when status is below
\* 200 or at least 500, and is not 101: true for 100 and 500, false for 101,
\* 200, 204, 302, 400 and 404.
C12_DefaultStacktracePred ==
    lastOp.op = "DefaultStacktracePred" =>
        LET status == lastOp.res.status
            result == lastOp.res.result
        IN  /\ result <=> ((status < 200 \/ status >= 500) /\ status # 101)
            /\ status \in {100, 500} => result
            /\ status \in {101, 200, 204, 302, 400, 404} => ~result

\* C12 witness: the predicate was called with 101 and answered false.
C12_Witness ==
    /\ lastOp.op = "DefaultStacktracePred"
    /\ lastOp.res.status = 101
    /\ lastOp.res.result = FALSE

\* The values of a list.
Members(statuses) == {statuses[i] : i \in 1..Len(statuses)}

\* C13: StatusIsNot(L...)(s) is true exactly when s is no element of L; any
\* list with the same values as L (reordered, with repetitions) gives the
\* same answer; with the empty list the answer is true.
C13_StatusIsNot ==
    lastOp.op = "StatusIsNot" =>
        LET statuses == lastOp.res.statuses
            status == lastOp.res.status
            result == lastOp.res.result
        IN  /\ result <=> (\A i \in 1..Len(statuses) : statuses[i] # status)
            /\ \A other \in ExcludeLists :
                  Members(other) = Members(statuses) =>
                      CallPred(StatusIsNot(other), status) = result
            /\ statuses = <<>> => result

\* C13 witness: a list that names 202 twice and 200 after it was asked about
\* 200 and answered false.
C13_Witness ==
    /\ lastOp.op = "StatusIsNot"
    /\ lastOp.res.statuses = <<StatusAccepted, StatusAccepted, StatusOK>>
    /\ lastOp.res.status = StatusOK
    /\ lastOp.res.result = FALSE

\* C14: the underlying writer of a decorated request has received exactly
\* the handler's WriteHeader and Write calls, with their arguments, in the
\* handler's order, whatever state the decorator was in; and a Write
\* returned the byte count and error the underlying writer returned.
C14_TransparentForwarding ==
    /\ \A r \in Reqs :
          ctx[r] # Nil => StatusCalls(wlog[r]) = StatusCalls(calls[r])
    /\ lastOp.op = "Write" => lastOp.res.ret = lastOp.res.under

\* C14 witness: on a hijacked decorator that captures the body, after
\* WriteHeader(500), a Write of "body" failed in the underlying writer and
\* returned that failure; the underlying writer has seen both calls.
C14_Witness ==
    /\ ctx[1] # Nil
    /\ loggers[ctx[1]].hijacked
    /\ loggers[ctx[1]].captureErrorOutput
    /\ lastOp.op = "Write"
    /\ lastOp.res.ret = [n |-> 0, err |-> "write failed"]
    /\ Len(StatusCalls(wlog[1])) = 2
    /\ StatusCalls(wlog[1])[1].status = StatusInternalServerError
    /\ StatusCalls(wlog[1])[2].body = "body"

\* C15 (as claimed): on every decorator, in every reachable state, the
\* body-capture flag is set if and only if a stack trace text is held.
C15_CaptureIffStack ==
    \A p \in 1..Len(loggers) :
        loggers[p].captureErrorOutput <=> (loggers[p].statusStack # "")

\* C16: a StacktraceWhen(pred) call changes nothing of its decorator but the
\* predicate, which becomes pred, and nothing of any other decorator (in
\* particular a status recorded before keeps its stack trace text and
\* capture flag); every other operation leaves the predicate alone; and a
\* WriteHeader(status) holds a stack trace text afterwards exactly when the
\* predicate installed at that moment accepts status.
C16_StacktraceWhenOnlyPredicate ==
    [][ /\ lastOp'.op = "StacktraceWhen" =>
              LET p == respLoggerFromContext(ctx[lastOp'.r])
              IN  /\ Len(loggers') = Len(loggers)
                  /\ loggers'[p] = [loggers[p] EXCEPT !.logStacktracePred = lastOp'.res]
                  /\ \A q \in 1..Len(loggers) : q # p => loggers'[q] = loggers[q]
        /\ lastOp'.op # "StacktraceWhen" =>
              \A q \in 1..Len(loggers) :
                  loggers'[q].logStacktracePred = loggers[q].logStacktracePred
        /\ (lastOp'.op = "WriteHeader" /\ curW[lastOp'.r].kind # "orig") =>
              LET p == curW[lastOp'.r].id
              IN  (loggers'[p].statusStack # "") <=>
                      CallPred(loggers[p].logStacktracePred, lastOp'.res)
      ]_vars

\* C16 witness: StacktraceWhen has just installed a predicate that accepts
\* every status on a decorator that had recorded 200 without a stack trace;
\* the decorator still holds no stack trace and does not capture bodies.
C16_Witness ==
    /\ lastOp.op = "StacktraceWhen"
    /\ lastOp.r = 1
    /\ lastOp.res = StatusIsNot(<<>>)
    /\ ctx[1] # Nil
    /\ loggers[ctx[1]].statusRecorded
    /\ loggers[ctx[1]].status = StatusOK
    /\ loggers[ctx[1]].logStacktracePred = StatusIsNot(<<>>)
    /\ loggers[ctx[1]].statusStack = ""
    /\ ~loggers[ctx[1]].captureErrorOutput

\* C17 (as claimed): a Hijack call on a decorator that fails, because the
\* underlying writer's Hijack returns an error or because the underlying
\* writer has no Hijack and the call panics, leaves a clear hijacked flag
\* clear.
C17_FailedHijackLeavesFlag ==
    [][ (lastOp'.op = "Hijack" /\ curW[lastOp'.r].kind # "orig") =>
            LET p == curW[lastOp'.r].id
                failed == IF "hijack" \in loggers[p].w.caps
                          THEN lastOp'.res.err # "nil"
                          ELSE TRUE
            IN  (failed /\ ~loggers[p].hijacked) => ~loggers'[p].hijacked
      ]_vars

\* ------------------------------------------- requests served concurrently

\* Handler operations performed so far, over all requests.
TotalOps == nops[1] + nops[2]

\* Both requests are in flight in one server: they go through the one
\* WithLogging(handler, DefaultStacktracePred) of the handler chain, the
\* server's writers have every optional capability, and klog.V(3) is on.
InitConc ==
    /\ InitWith(Reqs)
    /\ verbose
    /\ \A r \in Reqs : layers[r] = 1
    /\ \A r \in Reqs : mwPred[r] = DefaultPred
    /\ \A r \in Reqs : wcaps[r] = Capabilities

\* What the inner handler of request r may call.
HandlerOp(r) ==
    \/ WriteHeader(r)
    \/ Write(r)
    \/ Hijack(r)
    \/ LogOfAddf(r)
    \/ AddInfof(r)
    \/ AddKeyValueCtx(r)
    \/ StacktraceWhenCall(r)
    \/ UnloggedCall(r)

\* One step of the goroutine serving request r.
StepConc(r) ==
    \/ WithLoggingEnter(r)
    \/ HandlerStart(r)
    \/ TotalOps < MaxConcOps /\ HandlerOp(r)
    \/ HandlerReturn(r)
    \/ HandlerPanic(r)
    \/ WithLoggingExit(r)

\* The goroutines interleave at the granularity of whole operations.
NextConc == \E r \in Reqs : StepConc(r)

SpecConc == InitConc /\ [][NextConc]_vars

\* C18: with two requests served concurrently through one middleware, the
\* decorator a request's context leads to belongs to that request and to no
\* other; a decorator is new and in its initial state when it is installed;
\* and a step taken for one request leaves every other request's context
\* slot, decorators and emitted records as they were.
C18_Isolated ==
    /\ [](\A r \in Reqs :
             ctx[r] # Nil =>
                 /\ loggers[respLoggerFromContext(ctx[r])].req = r
                 /\ \A q \in Reqs \ {r} :
                       respLoggerFromContext(ctx[q]) # respLoggerFromContext(ctx[r]))
    /\ [][ /\ (lastOp'.op = "WithLogging" /\ lastOp'.res = "installed") =>
                 LET p == ctx'[lastOp'.r]
                 IN  /\ p \notin 1..Len(loggers)
                     /\ loggers'[p].req = lastOp'.r
                     /\ ~loggers'[p].statusRecorded
                     /\ ~loggers'[p].hijacked
                     /\ ~loggers'[p].captureErrorOutput
                     /\ loggers'[p].addedInfo = <<>>
                     /\ loggers'[p].addedKeyValuePairs = <<>>
           /\ \A q \in Reqs \ {lastOp'.r} :
                 /\ ctx'[q] = ctx[q]
                 /\ \A p \in 1..Len(loggers) :
                       loggers[p].req = q => loggers'[p] = loggers[p]
                 /\ HTTPRecords(q)' = HTTPRecords(q)
         ]_vars

\* C18 witness: request 1 recorded a status and its record has been
\* emitted while request 2 is still in its handler, whose decorator holds an
\* annotation and no status.
C18_Witness ==
    /\ ctx[1] # Nil
    /\ ctx[2] # Nil
    /\ ctx[1] # ctx[2]
    /\ Len(HTTPRecords(1)) = 1
    /\ loggers[ctx[1]].statusRecorded
    /\ pc[2] = "handler"
    /\ loggers[ctx[2]].addedInfo # <<>>
    /\ ~loggers[ctx[2]].statusRecorded
    /\ HTTPRecords(2) = <<>>

\* s is an initial segment of t.
IsPrefix(s, t) == Len(s) <= Len(t) /\ SubSeq(t, 1, Len(s)) = s

\* C19: a Write(b) on a decorator appends one newline-led quoted echo of b
\* to the annotation text when the capture flag is set once the Write's own
\* implicit recording of 200 has been applied, and leaves the annotation
\* text as it was otherwise; and no step of any operation removes or
\* rewrites what a decorator's annotation text already holds.
C19_WriteEcho ==
    [][ /\ (lastOp'.op = "Write" /\ curW[lastOp'.r].kind # "orig") =>
               LET r == lastOp'.r
                   p == curW[r].id
                   b == calls'[r][Len(calls'[r])].body
                   capture == \/ loggers[p].captureErrorOutput
                              \/ /\ ~loggers[p].statusRecorded
                                 /\ CallPred(loggers[p].logStacktracePred, StatusOK)
               IN  /\ loggers'[p].captureErrorOutput = capture
                   /\ loggers'[p].addedInfo =
                          IF capture
                          THEN loggers[p].addedInfo \o <<"\n", "logging error output: ", Quote(b), "\n">>
                          ELSE loggers[p].addedInfo
        /\ \A p \in 1..Len(loggers) :
               IsPrefix(loggers[p].addedInfo, loggers'[p].addedInfo)
      ]_vars

\* C19 witness: under a predicate that flags 200, the first call on the
\* decorator was Write("body") and it was echoed; a second Write("") was
\* echoed after it.
C19_Witness ==
    /\ ctx[1] # Nil
    /\ lastOp.op = "Write"
    /\ Len(calls[1]) = 2
    /\ calls[1][1].call = "Write"
    /\ calls[1][1].body = "body"
    /\ calls[1][2].call = "Write"
    /\ calls[1][2].body = ""
    /\ loggers[ctx[1]].status = StatusOK
    /\ loggers[ctx[1]].addedInfo =
           <<"\n", "logging error output: ", "\"body\"", "\n",
             "\n", "logging error output: ", "\"\"", "\n">>

\* C20: a decorator's statusRecorded is set exactly when WriteHeader or
\* Write has been called on it, and once set it stays set; and when the
\* handler made none of WriteHeader, Write and Hijack, the record emitted
\* for the request carries resp=0 and no statusStack.
C20_StatusRecorded ==
    /\ [](\A r \in Reqs :
             ctx[r] # Nil =>
                 /\ loggers[ctx[r]].statusRecorded <=> (StatusCalls(calls[r]) # <<>>)
                 /\ (StatusCalls(calls[r]) = <<>> /\ ~HijackCalled(r)) =>
                        \A i \in 1..Len(HTTPRecords(r)) :
                            LET kv == HTTPRecords(r)[i].kv
                            IN  /\ "resp" \in Keys(kv)
                                /\ ValueOf(kv, "resp") = 0
                                /\ "statusStack" \notin Keys(kv))
    /\ [][\A p \in 1..Len(loggers) :
              loggers[p].statusRecorded => loggers'[p].statusRecorded]_vars

\* C20 witness: the handler annotated the request, called none of
\* WriteHeader, Write and Hijack, and returned; the record has been emitted,
\* with resp=0.
C20_Witness ==
    /\ ctx[1] # Nil
    /\ handlerEnd[1] = Returned
    /\ calls[1] = <<>>
    /\ ~loggers[ctx[1]].statusRecorded
    /\ loggers[ctx[1]].addedInfo # <<>>
    /\ Len(HTTPRecords(1)) = 1
    /\ ValueOf(HTTPRecords(1)[1].kv, "resp") = 0

====
